---- MODULE Spec2Model ----
(***************************************************************************)
(* Model of estimate-battery-parameters.py: the pairwise differencing of   *)
(* the fetched states, the per-mode aggregation loop of main() and the     *)
(* cumulative-ratio estimation that follows it.                            *)
(*                                                                         *)
(* Numbers.  The energy fields and the estimated parameters are Python     *)
(* floats (IEEE-754 binary64).  A float is modelled by a record            *)
(*        [s, m, e]   standing for   s * m * 2^e                           *)
(* with the sign s in {1, -1}, the 53-bit significand m (2^52 <= m < 2^53, *)
(* held as a big natural number) and the exponent e; a zero has the empty  *)
(* significand and keeps its sign.  +, -, * and / compute the exact        *)
(* result and round it to the nearest double, ties to even, as the         *)
(* hardware does; a division by a zero is Python's ZeroDivisionError.      *)
(* Infinities, NaNs and subnormal numbers are outside the model: the       *)
(* magnitudes of a run stay between 2^-1000 and 2^1000.                    *)
(* Durations and timestamps (timedelta and datetime, exact integer counts) *)
(* are counted in ticks of half an hour.                                   *)
(***************************************************************************)
EXTENDS Integers, Sequences, FiniteSets, TLC

VARIABLES states, pc, i, deltas, k,
          charging_stats, discharging_stats, idling_stats, mixed_stats,
          folded, header, result,
          add_a, add_b, add_c, add_out

vars == <<states, pc, i, deltas, k,
          charging_stats, discharging_stats, idling_stats, mixed_stats,
          folded, header, result,
          add_a, add_b, add_c, add_out>>

pipeline_vars == <<states, pc, i, deltas, k,
                   charging_stats, discharging_stats, idling_stats, mixed_stats,
                   folded, header, result>>

add_vars == <<add_a, add_b, add_c, add_out>>

---------------------------------------------------------------------------
(* Big natural numbers: little-endian sequences of limbs below LimbBase,   *)
(* without leading zero limbs (the number 0 is the empty sequence).  The   *)
(* operations work limb by limb, with the carries in closed form.          *)

LimbBits == 14
LimbBase == 2^LimbBits

\* Width of the significand of a binary64 float, and the limbs that hold it.
SignificandBits == 53
SignificandLimbs == 4

Limb(a, j) == IF 1 <= j /\ j <= Len(a) THEN a[j] ELSE 0

Longest(a, b) == IF Len(a) > Len(b) THEN Len(a) ELSE Len(b)

\* a without its leading zero limbs
BigTrim(a) ==
    IF a = <<>> \/ a[Len(a)] # 0 THEN a
    ELSE LET used == {j \in 1..Len(a) : a[j] # 0}
         IN  IF used = {} THEN <<>>
             ELSE SubSeq(a, 1, CHOOSE j \in used : \A l \in used : l <= j)

\* n as a big natural, for 0 <= n < 2^31
BigFromInt(n) ==
    BigTrim(<<n % LimbBase, (n \div LimbBase) % LimbBase, n \div (LimbBase * LimbBase)>>)

\* a + b: limb j takes a carry when a lower limb overflows and every limb in
\* between is full.
BigAdd(a, b) ==
    LET n == Longest(a, b) + 1
        t == [j \in 1..n |-> Limb(a, j) + Limb(b, j)]
        carry(j) ==
            IF \E c \in 1..(j - 1) :
                   t[c] >= LimbBase /\ \A l \in (c + 1)..(j - 1) : t[l] = LimbBase - 1
            THEN 1 ELSE 0
    IN  BigTrim([j \in 1..n |-> (t[j] + carry(j)) % LimbBase])

\* a - b for a >= b: limb j lends when a lower limb falls short and every limb
\* in between is level.
BigSub(a, b) ==
    LET t == [j \in 1..Len(a) |-> a[j] - Limb(b, j)]
        borrow(j) ==
            IF \E c \in 1..(j - 1) :
                   t[c] < 0 /\ \A l \in (c + 1)..(j - 1) : t[l] = 0
            THEN 1 ELSE 0
    IN  BigTrim([j \in 1..Len(a) |-> (t[j] - borrow(j)) % LimbBase])

\* -1, 0 or 1 as a < b, a = b or a > b: the highest limb that differs decides.
BigCmp(a, b) ==
    LET n == Longest(a, b)
        t == [j \in 1..n |-> Limb(a, j) - Limb(b, j)]
    IN  IF \A c \in 1..n : t[c] = 0 THEN 0
        ELSE IF t[CHOOSE c \in 1..n : t[c] # 0 /\ \A l \in (c + 1)..n : t[l] = 0] > 0 THEN 1
        ELSE -1

\* a * x for 0 <= x <= LimbBase: the low halves of the limb products plus their
\* high halves one limb up.
BigMulSmall(a, x) ==
    BigAdd([j \in 1..Len(a) |-> (a[j] * x) % LimbBase],
           <<0>> \o [j \in 1..Len(a) |-> (a[j] * x) \div LimbBase])

\* a * b for a of at most SignificandLimbs limbs and b of at most 7: the sums of
\* the limb products of each weight (below 2^31), split into three limbs each.
BigMul(a, b) ==
    LET n == Len(a) + Len(b)
        column(c) == Limb(a, 1) * Limb(b, c) + Limb(a, 2) * Limb(b, c - 1)
                     + Limb(a, 3) * Limb(b, c - 2) + Limb(a, 4) * Limb(b, c - 3)
        low  == [j \in 1..n |-> column(j) % LimbBase]
        mid  == [j \in 1..n |-> (column(j) \div LimbBase) % LimbBase]
        high == [j \in 1..n |-> column(j) \div (LimbBase * LimbBase)]
    IN  BigAdd(BigAdd(low, <<0>> \o mid), <<0, 0>> \o high)

\* a * 2^n: whole limbs of zeros, then each limb's low bits moved up next to
\* the high bits of the limb below.
BigShl(a, n) ==
    IF a = <<>> \/ n = 0 THEN a
    ELSE LET b == n % LimbBits
         IN  [j \in 1..(n \div LimbBits) |-> 0]
             \o BigTrim([j \in 1..(Len(a) + 1) |->
                            (Limb(a, j) % 2^(LimbBits - b)) * 2^b
                            + Limb(a, j - 1) \div 2^(LimbBits - b)])

\* floor(a / 2^n)
BigShr(a, n) ==
    LET w == n \div LimbBits
        b == n % LimbBits
    IN  IF w >= Len(a) THEN <<>>
        ELSE BigTrim([j \in 1..(Len(a) - w) |->
                         (a[j + w] \div 2^b) + (Limb(a, j + w + 1) % 2^b) * 2^(LimbBits - b)])

\* Bit p of a (bit 0 is the lowest)
BigBit(a, p) == (Limb(a, p \div LimbBits + 1) \div 2^(p % LimbBits)) % 2

\* Whether a has a bit set below bit p
BigAnyBelow(a, p) ==
    \/ \E j \in 1..(p \div LimbBits) : Limb(a, j) # 0
    \/ Limb(a, p \div LimbBits + 1) % 2^(p % LimbBits) # 0

\* Number of bits of a
BigBitLen(a) ==
    IF a = <<>> THEN 0
    ELSE LimbBits * (Len(a) - 1) + Cardinality({b \in 0..(LimbBits - 1) : 2^b <= a[Len(a)]})

\* Long division by d, a divisor of SignificandLimbs limbs whose top limb is at
\* least LimbBase / 2.  The quotient of the two top limbs of the dividend r1 by
\* the top limb of d is the next limb of the quotient or exceeds it by at most 2.
BigDivGuess(r1, d) ==
    LET top2 == Limb(r1, SignificandLimbs + 1) * LimbBase + Limb(r1, SignificandLimbs)
    IN  IF top2 \div d[SignificandLimbs] >= LimbBase THEN LimbBase - 1
        ELSE top2 \div d[SignificandLimbs]

\* The guess, lowered while d * guess exceeds r1.
BigDivFix(r1, d, guess) ==
    guess - Cardinality({c \in 0..1 :
                            guess - c > 0 /\ BigCmp(BigMulSmall(d, guess - c), r1) > 0})

BigDivResult(r1, d, q) == [q |-> q, r |-> BigSub(r1, BigMulSmall(d, q))]

\* One limb of the quotient, for rem < d and r1 = rem * LimbBase:
\* [q |-> floor(r1 / d), r |-> the remainder].
BigDivShifted(r1, d) == BigDivResult(r1, d, BigDivFix(r1, d, BigDivGuess(r1, d)))
BigDivStep(rem, d) == BigDivShifted(IF rem = <<>> THEN <<>> ELSE <<0>> \o rem, d)

RECURSIVE BigDivLimbs(_, _, _)

BigDivJoin(limb, rest) == [q |-> Append(rest.q, limb), r |-> rest.r]

BigDivNext(step, d, n) == BigDivJoin(step.q, BigDivLimbs(step.r, d, n - 1))

\* n limbs of a quotient, for rem < d:
\* [q |-> floor(rem * LimbBase^n / d), r |-> the remainder].
BigDivLimbs(rem, d, n) ==
    IF n = 0 THEN [q |-> <<>>, r |-> rem]
    ELSE BigDivNext(BigDivStep(rem, d), d, n)

---------------------------------------------------------------------------
(* Floats *)

\* 0.0 and -0.0
FZero(sign) == [s |-> sign, m |-> <<>>, e |-> 0]

IsZero(x) == x.m = <<>>

\* [s, q, e], with q of SignificandBits bits or one more (a power of 2).
Normal(sign, q, e) ==
    IF BigBitLen(q) > SignificandBits THEN [s |-> sign, m |-> BigShr(q, 1), e |-> e + 1]
    ELSE [s |-> sign, m |-> q, e |-> e]

\* w without its d lowest bits, rounded: up when the bits dropped are above a
\* half, or are a half and the bit kept above them is 1.
RoundDrop(sign, w, e, d) ==
    Normal(sign,
           IF BigBit(w, d - 1) = 1 /\ (BigAnyBelow(w, d - 1) \/ BigBit(w, d) = 1)
           THEN BigAdd(BigShr(w, d), <<1>>)
           ELSE BigShr(w, d),
           e + d)

\* Round for a w of n bits
RoundBits(sign, w, e, n) ==
    IF n <= SignificandBits
    THEN [s |-> sign, m |-> BigShl(w, SignificandBits - n), e |-> e - (SignificandBits - n)]
    ELSE RoundDrop(sign, w, e, n - SignificandBits)

\* The double nearest to sign * w * 2^e (ties to even), for a big natural w.
Round(sign, w, e) ==
    IF w = <<>> THEN FZero(sign) ELSE RoundBits(sign, w, e, BigBitLen(w))

\* float(n) for an int n
FInt(n) == IF n >= 0 THEN Round(1, BigFromInt(n), 0) ELSE Round(-1, BigFromInt(-n), 0)

FNeg(x) == [x EXCEPT !.s = -x.s]
FAbs(x) == [x EXCEPT !.s = 1]

\* sign(xs * a + ys * b) and |xs * a + ys * b|, for c = BigCmp(a, b)
SumSign(xs, ys, c) == IF xs = ys \/ c > 0 THEN xs ELSE ys
SumMagnitude(xs, a, ys, b, c) ==
    IF xs = ys THEN BigAdd(a, b)
    ELSE IF c > 0 THEN BigSub(a, b)
    ELSE BigSub(b, a)

\* The double nearest to (xs * a + ys * b) * 2^e, for c = BigCmp(a, b)
FAddAligned(xs, a, ys, b, e, c) ==
    IF xs # ys /\ c = 0 THEN FZero(1)
    ELSE Round(SumSign(xs, ys, c), SumMagnitude(xs, a, ys, b, c), e)

\* x + y for x, y other than zero, with e the lower of their exponents
FAddFrom(x, y, e) ==
    FAddAligned(x.s, BigShl(x.m, x.e - e), y.s, BigShl(y.m, y.e - e), e,
                BigCmp(BigShl(x.m, x.e - e), BigShl(y.m, y.e - e)))

\* float.__add__
FAdd(x, y) ==
    IF IsZero(x) /\ IsZero(y) THEN FZero(IF x.s = -1 /\ y.s = -1 THEN -1 ELSE 1)
    ELSE IF IsZero(x) THEN y
    ELSE IF IsZero(y) THEN x
    ELSE IF x.e - y.e > SignificandBits + 2 THEN x
    ELSE IF y.e - x.e > SignificandBits + 2 THEN y
    ELSE FAddFrom(x, y, IF x.e < y.e THEN x.e ELSE y.e)

\* float.__sub__
FSub(x, y) == FAdd(x, FNeg(y))

\* float.__mul__
FMul(x, y) ==
    IF IsZero(x) \/ IsZero(y) THEN FZero(x.s * y.s)
    ELSE Round(x.s * y.s, BigMul(x.m, y.m), x.e + y.e)

\* What a division by 0.0 raises.
ZeroDivisionError == [error |-> "ZeroDivisionError"]

Raised(v) == "error" \in DOMAIN v

\* Twice the quotient q, plus 1 when a remainder r is left.
FDivSticky(q, r) == BigAdd(BigAdd(q, q), IF r = <<>> THEN <<>> ELSE <<1>>)

\* The quotient n / d of two significands aligned to the top of their limbs,
\* to 57 bits (the leading bit q0, then SignificandLimbs limbs by long
\* division) and a last bit that tells whether a remainder was left, rounded.
FDivBits(q0, rest) == FDivSticky(BigTrim(Append(rest.q, q0)), rest.r)

FDivLeading(sign, n, d, e, q0) ==
    Round(sign,
          FDivBits(q0, BigDivLimbs(IF q0 = 1 THEN BigSub(n, d) ELSE n, d, SignificandLimbs)),
          e)

FDivAligned(sign, n, d, e) ==
    FDivLeading(sign, n, d, e, IF BigCmp(n, d) >= 0 THEN 1 ELSE 0)

\* float.__truediv__
FDiv(x, y) ==
    IF IsZero(y) THEN ZeroDivisionError
    ELSE IF IsZero(x) THEN FZero(x.s * y.s)
    ELSE FDivAligned(x.s * y.s,
                     BigShl(x.m, SignificandLimbs * LimbBits - SignificandBits),
                     BigShl(y.m, SignificandLimbs * LimbBits - SignificandBits),
                     x.e - y.e - (SignificandLimbs * LimbBits + 1))

\* float comparisons (0.0 == -0.0)
FLt(x, y) ==
    IF IsZero(x) THEN ~IsZero(y) /\ y.s = 1
    ELSE IF IsZero(y) THEN x.s = -1
    ELSE IF x.s # y.s THEN x.s = -1
    ELSE LET less == x.e < y.e \/ (x.e = y.e /\ BigCmp(x.m, y.m) < 0)
             more == x.e > y.e \/ (x.e = y.e /\ BigCmp(x.m, y.m) > 0)
         IN  IF x.s = 1 THEN less ELSE more
FEq(x, y) == (IsZero(x) /\ IsZero(y)) \/ x = y
FLe(x, y) == FEq(x, y) \/ FLt(x, y)
FGe(x, y) == FLe(y, x)
FGt(x, y) == FLt(y, x)

\* The float literal 0.0 (the default of Delta.charge, imported, exported).
Zero == FZero(1)

\* The float literal 0.001 of is_importing and is_exporting: the double nearest
\* to 1/1000, which is 4611686018427388 * 2^-62.
Eps == FDiv(FInt(1), FInt(1000))

\* The double nearest to sign * (a * eps / 2 + v * 2^(eps.e)), for a >= 0
FUnits(sign, a, v, eps) ==
    Round(sign,
          IF v >= 0 THEN BigAdd(BigMulSmall(eps.m, a), BigFromInt(2 * v))
          ELSE BigSub(BigMulSmall(eps.m, a), BigFromInt(-2 * v)),
          eps.e - 1)

\* The double of value hh * (0.001 / 2) + uu * 2^-62, where 2^-62 is the unit in
\* the last place of 0.001: the notation of the model's inputs (|uu| < 2^29).
F(hh, uu) ==
    IF hh < 0 \/ (hh = 0 /\ uu < 0) THEN FUnits(-1, -hh, -uu, Eps)
    ELSE FUnits(1, hh, uu, Eps)

---------------------------------------------------------------------------
(* Delta *)

MkDelta(d, c, im, ex) == [duration |-> d, charge |-> c, imported |-> im, exported |-> ex]

\* Delta(): the dataclass defaults.
Delta0 == MkDelta(0, Zero, Zero, Zero)

\* Delta.__add__ that keeps its own exported (a mutation).
DeltaAdd_keeps_exported(self, other) ==
    MkDelta(self.duration + other.duration,
            FAdd(self.charge, other.charge),
            FAdd(self.imported, other.imported),
            self.exported)

\* Delta.__add__ that keeps its own duration (a mutation).
DeltaAdd_keeps_duration(self, other) ==
    MkDelta(self.duration,
            FAdd(self.charge, other.charge),
            FAdd(self.imported, other.imported),
            FAdd(self.exported, other.exported))

\* Delta.__add__
DeltaAdd(self, other) ==
    MkDelta(self.duration + other.duration,
            FAdd(self.charge, other.charge),
            FAdd(self.imported, other.imported),
            FAdd(self.exported, other.exported))

\* is_importing with a strict comparison (a mutation).
is_importing_strict(self) == FGt(self.imported, Eps)

\* Delta.is_importing, Delta.is_exporting
is_importing(self) == FGe(self.imported, Eps)
is_exporting(self) == FGe(self.exported, Eps)

---------------------------------------------------------------------------
(* The estimator formulas of Delta *)

\* Ticks of the model's clock in one hour.
TicksPerHour == 2

\* The divisor 3600.0 of total_hours.
SecondsPerHour == 3600

\* timedelta.total_seconds()
total_seconds(duration) == FInt(duration * (SecondsPerHour \div TicksPerHour))

\* Delta.total_hours
total_hours(self) == FDiv(total_seconds(self.duration), FInt(SecondsPerHour))

\* The dividend of Delta.as_parasitic_load
parasitic_numerator(self) == FSub(FSub(self.exported, self.imported), self.charge)

\* Delta.as_parasitic_load (raises ZeroDivisionError when total_hours is 0.0)
as_parasitic_load(self) == FDiv(parasitic_numerator(self), total_hours(self))

\* charging_denominator without the parasitic term (a mutation).
charging_denominator_no_parasitic(self, parasitic_load) ==
    FSub(self.imported, self.exported)

\* The divisor of Delta.charging_efficiency
charging_denominator(self, parasitic_load) ==
    FSub(FSub(self.imported, self.exported), FMul(parasitic_load, total_hours(self)))

\* Delta.charging_efficiency (raises ZeroDivisionError when the divisor is 0.0)
charging_efficiency(self, parasitic_load) ==
    FDiv(self.charge, charging_denominator(self, parasitic_load))

\* The divisor of Delta.discharging_efficiency
discharging_denominator(self, parasitic_load) ==
    FSub(self.charge, FMul(parasitic_load, total_hours(self)))

\* Delta.discharging_efficiency (raises ZeroDivisionError when the divisor is 0.0)
discharging_efficiency(self, parasitic_load) ==
    FDiv(FSub(self.imported, self.exported), discharging_denominator(self, parasitic_load))

---------------------------------------------------------------------------
(* State *)

MkState(t, r, im, ex) ==
    [timestamp |-> t, residual_energy |-> r, total_import |-> im, total_export |-> ex]

\* State.__sub__
StateSub(self, rhs) ==
    MkDelta(self.timestamp - rhs.timestamp,
            FSub(self.residual_energy, rhs.residual_energy),
            FSub(self.total_import, rhs.total_import),
            FSub(self.total_export, rhs.total_export))

\* valid_pair with the timestamps compared by <= (a mutation).
valid_pair_same_timestamp(from_state, to_state) ==
    /\ from_state.timestamp <= to_state.timestamp
    /\ FLe(from_state.total_import, to_state.total_import)
    /\ FLe(from_state.total_export, to_state.total_export)

\* valid_pair without the check of total_export (a mutation).
valid_pair_no_export_check(from_state, to_state) ==
    /\ from_state.timestamp < to_state.timestamp
    /\ FLe(from_state.total_import, to_state.total_import)

\* The condition of differentiate() on one pair of pairwise(states)
valid_pair(from_state, to_state) ==
    /\ from_state.timestamp < to_state.timestamp
    /\ FLe(from_state.total_import, to_state.total_import)
    /\ FLe(from_state.total_export, to_state.total_export)

---------------------------------------------------------------------------
(* The inputs.  fetch_states() may return any list of states; the model    *)
(* enumerates the lists that start from a zero reading and move by one of  *)
(* the increments below from each state to the next.                       *)

\* Longest list of fetched states.
MaxStates == 4

Steps ==
    { MkDelta( 3, F(-2, 0), Zero,      Zero),      \* idle, charge lost in 1.5 hours
      MkDelta( 1, F(-2, 0), Zero,      Zero),      \* idle, charge lost faster
      MkDelta( 1, Zero,     Zero,      Zero),      \* idle, charge unchanged
      MkDelta( 1, F(-2, 0), F(2, -1),  Zero),      \* import one ulp below 0.001
      MkDelta( 1, F(2, 0),  F(2, 0),   Zero),      \* import of exactly 0.001
      MkDelta( 2, F(4, 0),  F(4, 0),   Zero),      \* import of 0.002
      MkDelta( 1, F(0, 1),  Zero,      F(2, -1)),  \* export one ulp below 0.001, charge gained
      MkDelta( 1, F(-2, 0), Zero,      F(2, 0)),   \* export of exactly 0.001
      MkDelta( 1, Zero,     F(2, 0),   F(2, 0)),   \* import and export
      MkDelta( 0, Zero,     F(2, 0),   Zero),      \* same timestamp
      MkDelta( 1, Zero,     F(-2, 0),  Zero),      \* import counter decreased
      MkDelta( 1, F(-2, 0), Zero,      F(-2, 0)) } \* export counter decreased

State0 == MkState(0, Zero, Zero, Zero)

StateAdd(s, d) ==
    MkState(s.timestamp + d.duration,
            FAdd(s.residual_energy, d.charge),
            FAdd(s.total_import, d.imported),
            FAdd(s.total_export, d.exported))

RECURSIVE Integrate(_)
Integrate(steps) ==
    IF steps = <<>> THEN <<State0>>
    ELSE LET before == Integrate(SubSeq(steps, 1, Len(steps) - 1))
         IN  Append(before, StateAdd(before[Len(before)], steps[Len(steps)]))

\* The lists of n states that Integrate reaches over the increments of S
\* (the empty list for n = 0).
FetchedLists(n, S) ==
    IF n = 0 THEN {<<>>} ELSE { Integrate(steps) : steps \in [1..(n - 1) -> S] }

---------------------------------------------------------------------------
(* main() *)

NoResult == [status |-> "none"]
NoHeader == [printed |-> FALSE]

Init ==
    /\ \E n \in 0..MaxStates : states \in FetchedLists(n, Steps)
    /\ pc = "differentiate"
    /\ i = 1
    /\ deltas = <<>>
    /\ k = 1
    /\ charging_stats = Delta0
    /\ discharging_stats = Delta0
    /\ idling_stats = Delta0
    /\ mixed_stats = Delta0
    /\ folded = <<>>
    /\ header = NoHeader
    /\ result = NoResult
    /\ add_a = Delta0 /\ add_b = Delta0 /\ add_c = Delta0 /\ add_out = <<>>

\* differentiate(): one pair of pairwise(states) that passes the condition.
DifferentiateYield ==
    /\ pc = "differentiate"
    /\ i < Len(states)
    /\ valid_pair(states[i], states[i + 1])
    /\ deltas' = Append(deltas, StateSub(states[i + 1], states[i]))
    /\ i' = i + 1
    /\ UNCHANGED <<states, pc, k, charging_stats, discharging_stats, idling_stats,
                   mixed_stats, folded, header, result, add_vars>>

\* differentiate(): one pair of pairwise(states) that fails the condition.
DifferentiateSkip ==
    /\ pc = "differentiate"
    /\ i < Len(states)
    /\ ~valid_pair(states[i], states[i + 1])
    /\ i' = i + 1
    /\ UNCHANGED <<states, pc, deltas, k, charging_stats, discharging_stats, idling_stats,
                   mixed_stats, folded, header, result, add_vars>>

\* pairwise(states) is exhausted: list(...) returns and the four totals are set up.
DifferentiateDone ==
    /\ pc = "differentiate"
    /\ i >= Len(states)
    /\ pc' = "aggregate"
    /\ k' = 1
    /\ charging_stats' = Delta0
    /\ discharging_stats' = Delta0
    /\ idling_stats' = Delta0
    /\ mixed_stats' = Delta0
    /\ UNCHANGED <<states, i, deltas, folded, header, result, add_vars>>

\* branch with the mixed deltas counted as charging (a mutation).
branch_mixed_as_charging(delta) ==
    IF is_importing(delta) THEN "charging"
    ELSE IF is_exporting(delta) THEN "discharging"
         ELSE IF FLe(delta.charge, Zero) THEN "idling"
         ELSE "charging"

\* The branch of the aggregation loop that a delta takes.
branch(delta) ==
    IF is_importing(delta)
    THEN IF is_exporting(delta) THEN "mixed" ELSE "charging"
    ELSE IF is_exporting(delta) THEN "discharging"
         ELSE IF FLe(delta.charge, Zero) THEN "idling"
         ELSE "charging"

\* The body of the loop for a delta that takes branch b.
AggregateInto(delta, b) ==
    /\ charging_stats' =
           IF b = "charging" THEN DeltaAdd(charging_stats, delta) ELSE charging_stats
    /\ discharging_stats' =
           IF b = "discharging" THEN DeltaAdd(discharging_stats, delta) ELSE discharging_stats
    /\ idling_stats' =
           IF b = "idling" THEN DeltaAdd(idling_stats, delta) ELSE idling_stats
    /\ mixed_stats' =
           IF b = "mixed" THEN DeltaAdd(mixed_stats, delta) ELSE mixed_stats
    /\ folded' = Append(folded, b)

\* One iteration of `for delta in deltas`.
Aggregate ==
    /\ pc = "aggregate"
    /\ k <= Len(deltas)
    /\ AggregateInto(deltas[k], branch(deltas[k]))
    /\ k' = k + 1
    /\ UNCHANGED <<states, pc, i, deltas, header, result, add_vars>>

\* What lines 185-198 compute from the three totals they read: the three
\* parameters and the product shown as the round-trip efficiency, or the line
\* at which a division raises.
estimate_result(parasitic_load, ce, de) ==
    IF Raised(ce) THEN [status |-> "ZeroDivisionError", line |-> 186]
    ELSE IF Raised(de) THEN [status |-> "ZeroDivisionError", line |-> 187]
    ELSE [status |-> "ok",
          parasitic_load |-> parasitic_load,
          charging_efficiency |-> ce,
          discharging_efficiency |-> de,
          round_trip_efficiency |-> FMul(ce, de)]

estimate_from(charging, discharging, parasitic_load) ==
    IF Raised(parasitic_load) THEN [status |-> "ZeroDivisionError", line |-> 185]
    ELSE estimate_result(parasitic_load,
                         charging_efficiency(charging, parasitic_load),
                         discharging_efficiency(discharging, parasitic_load))

estimate(charging, discharging, idling) ==
    estimate_from(charging, discharging, as_parasitic_load(idling))

\* The loop is over: the cumulative table is printed, then the parameters are
\* computed and printed, unless a division raises.
Estimate ==
    /\ pc = "aggregate"
    /\ k > Len(deltas)
    /\ header' = [printed |-> TRUE, states |-> Len(states), deltas |-> Len(deltas)]
    /\ result' = estimate(charging_stats, discharging_stats, idling_stats)
    /\ pc' = IF result'.status = "ok" THEN "done" ELSE "crashed"
    /\ UNCHANGED <<states, i, deltas, k, charging_stats, discharging_stats, idling_stats,
                   mixed_stats, folded, add_vars>>

Next ==
    \/ DifferentiateYield
    \/ DifferentiateSkip
    \/ DifferentiateDone
    \/ Aggregate
    \/ Estimate

Spec == Init /\ [][Next]_vars

---------------------------------------------------------------------------
(* Longer lists over fewer increments: every mode together with mixed      *)
(* deltas.                                                                 *)

MaxStatesLong == 5

StepsLong ==
    { MkDelta(2, F(-2, 0), Zero,     Zero),      \* idle, charge lost
      MkDelta(2, F(4, 0),  F(4, 0),  Zero),      \* import of 0.002
      MkDelta(1, F(-2, 0), Zero,     F(2, 0)),   \* export of exactly 0.001
      MkDelta(1, Zero,     F(2, 0),  F(2, 0)),   \* import and export
      MkDelta(2, F(4, 0),  F(4, 0),  F(2, 0)),   \* import and export
      MkDelta(1, Zero,     F(-2, 0), Zero) }     \* import counter decreased

InitLong ==
    /\ \E n \in 0..MaxStatesLong : states \in FetchedLists(n, StepsLong)
    /\ pc = "differentiate"
    /\ i = 1
    /\ deltas = <<>>
    /\ k = 1
    /\ charging_stats = Delta0
    /\ discharging_stats = Delta0
    /\ idling_stats = Delta0
    /\ mixed_stats = Delta0
    /\ folded = <<>>
    /\ header = NoHeader
    /\ result = NoResult
    /\ add_a = Delta0 /\ add_b = Delta0 /\ add_c = Delta0 /\ add_out = <<>>

SpecLong == InitLong /\ [][Next]_vars

---------------------------------------------------------------------------
(* Delta.__add__ on its own: three operands, every sum the algebra needs.  *)

AddOperands ==
    { Delta0,
      MkDelta(1, F(0, 1),  Zero,     Zero),
      MkDelta(1, F(0, 1),  F(2, -1), F(2, 0)),
      MkDelta(2, F(4, 0),  F(4, 0),  Zero),
      MkDelta(1, F(-2, 0), Zero,     F(2, 0)),
      MkDelta(3, F(-4, 0), F(2, 0),  F(0, 3)) }

InitAdd ==
    /\ add_a \in AddOperands
    /\ add_b \in AddOperands
    /\ add_c \in AddOperands
    /\ add_out = <<>>
    /\ states = <<>>
    /\ pc = "add"
    /\ i = 1
    /\ deltas = <<>>
    /\ k = 1
    /\ charging_stats = Delta0
    /\ discharging_stats = Delta0
    /\ idling_stats = Delta0
    /\ mixed_stats = Delta0
    /\ folded = <<>>
    /\ header = NoHeader
    /\ result = NoResult

\* Delta.__add__ on objects.  objects is the sequence of the Delta objects that
\* exist, self and other are positions in it.  The call reads the fields of
\* both operands, constructs a Delta from the four sums and returns it: the
\* object returned is the last one of the result, and no object that existed is
\* assigned to.
add_call(objects, self, other) ==
    Append(objects, DeltaAdd(objects[self], objects[other]))

\* The objects after a + b, b + a, (a + b) + c, b + c, a + (b + c), a + Delta()
\* and Delta() + a, in this order.  Objects 1 to 4 are the operands a, b, c and
\* Delta(); a call returns the next object.
AddObjects(a, b, c) ==
    add_call(add_call(add_call(add_call(add_call(add_call(add_call(
        <<a, b, c, Delta0>>, 1, 2), 2, 1), 5, 3), 2, 3), 1, 8), 1, 4), 4, 1)

\* What the calls leave behind: the Deltas returned, the positions of the
\* objects returned, and the operands as they are once every call has returned.
AddResults(objects) ==
    [ab       |-> objects[5],
     ba       |-> objects[6],
     ab_c     |-> objects[7],
     a_bc     |-> objects[9],
     a0       |-> objects[10],
     oa       |-> objects[11],
     returned |-> 5..Len(objects),
     operands |-> SubSeq(objects, 1, 4)]

Add ==
    /\ pc = "add"
    /\ add_out = <<>>
    /\ add_out' = AddResults(AddObjects(add_a, add_b, add_c))
    /\ UNCHANGED <<add_a, add_b, add_c, pipeline_vars>>

NextAdd == Add

SpecAdd == InitAdd /\ [][NextAdd]_vars

---------------------------------------------------------------------------
(* Claims *)

Terminal == pc \in {"done", "crashed"}

\* Number of adjacent pairs of the fetched list.
NumPairs == IF Len(states) = 0 THEN 0 ELSE Len(states) - 1

\* Number of pairs differentiate() has gone through.
PairsSeen == IF pc = "differentiate" THEN (IF i - 1 < NumPairs THEN i - 1 ELSE NumPairs) ELSE NumPairs

\* The validity rule of the specification on the pair (states[j], states[j+1]).
C1_Admitted(j) ==
    /\ states[j].timestamp < states[j + 1].timestamp
    /\ FLe(states[j].total_import, states[j + 1].total_import)
    /\ FLe(states[j].total_export, states[j + 1].total_export)

\* next - prev, component by component.
C1_Difference(j) ==
    [duration |-> states[j + 1].timestamp - states[j].timestamp,
     charge   |-> FSub(states[j + 1].residual_energy, states[j].residual_energy),
     imported |-> FSub(states[j + 1].total_import, states[j].total_import),
     exported |-> FSub(states[j + 1].total_export, states[j].total_export)]

RECURSIVE C1_Expected(_)
C1_Expected(n) ==
    IF n = 0 THEN <<>>
    ELSE IF C1_Admitted(n) THEN Append(C1_Expected(n - 1), C1_Difference(n))
    ELSE C1_Expected(n - 1)

\* C1: after any number of pairs, the deltas emitted are, in input order, the
\* differences next - prev of exactly the pairs seen so far that satisfy the
\* validity rule, each state compared with its immediate predecessor; and the
\* pass ends only after the last pair, whatever was skipped before.
C1_DifferentiateEmitsValidPairs ==
    /\ deltas = C1_Expected(PairsSeen)
    /\ pc # "differentiate" => i >= Len(states)

\* C1 witness: the pass is over a list in which a skipped pair is followed by an
\* emitted one (whose predecessor belonged to the skipped pair).
C1_Witness ==
    /\ pc = "aggregate"
    /\ Len(states) = 4
    /\ ~C1_Admitted(2)
    /\ C1_Admitted(3)
    /\ C1_Admitted(1)
    /\ Len(deltas) = 2
    /\ deltas[2] = C1_Difference(3)

\* The pair's raw differences are an admissible Delta.
C2_RawAdmissible(j) ==
    /\ states[j + 1].timestamp - states[j].timestamp > 0
    /\ FGe(FSub(states[j + 1].total_import, states[j].total_import), Zero)
    /\ FGe(FSub(states[j + 1].total_export, states[j].total_export), Zero)

\* C2: every emitted Delta has imported >= 0, exported >= 0 and duration > 0, and
\* the pairs whose differences would break that are dropped, not corrected: the
\* number of Deltas is the number of pairs seen whose raw differences are
\* admissible.
C2_AdmittedDeltasNonNegative ==
    /\ \A j \in 1..Len(deltas) :
          /\ FGe(deltas[j].imported, Zero)
          /\ FGe(deltas[j].exported, Zero)
          /\ deltas[j].duration > 0
    /\ Len(deltas) = Cardinality({j \in 1..PairsSeen : C2_RawAdmissible(j)})

\* C2 witness: the pass is over, a Delta was emitted, and a pair with a negative
\* export difference and a pair with an unchanged timestamp were met.
C2_Witness ==
    /\ pc = "aggregate"
    /\ Len(deltas) >= 1
    /\ \E j \in 1..NumPairs : FLt(FSub(states[j + 1].total_export, states[j].total_export), Zero)
    /\ \E j \in 1..NumPairs : states[j + 1].timestamp <= states[j].timestamp

\* The five rules of the classifier, in the specification's order.
C3_Rule(r, d) ==
    CASE r = 1 -> FGe(d.imported, Eps) /\ FGe(d.exported, Eps)
      [] r = 2 -> FGe(d.imported, Eps) /\ FLt(d.exported, Eps)
      [] r = 3 -> FLt(d.imported, Eps) /\ FGe(d.exported, Eps)
      [] r = 4 -> FLt(d.imported, Eps) /\ FLt(d.exported, Eps) /\ FLe(d.charge, Zero)
      [] r = 5 -> FLt(d.imported, Eps) /\ FLt(d.exported, Eps) /\ FGt(d.charge, Zero)

C3_RuleMode(r) ==
    CASE r = 1 -> "mixed"
      [] r = 2 -> "charging"
      [] r = 3 -> "discharging"
      [] r = 4 -> "idling"
      [] r = 5 -> "charging"

\* The step adds d to the bucket of mode m and leaves the other three alone.
C3_AddedOnlyTo(m, d) ==
    /\ charging_stats' =
          IF m = "charging" THEN DeltaAdd(charging_stats, d) ELSE charging_stats
    /\ discharging_stats' =
          IF m = "discharging" THEN DeltaAdd(discharging_stats, d) ELSE discharging_stats
    /\ idling_stats' =
          IF m = "idling" THEN DeltaAdd(idling_stats, d) ELSE idling_stats
    /\ mixed_stats' =
          IF m = "mixed" THEN DeltaAdd(mixed_stats, d) ELSE mixed_stats

\* C3: every iteration of the aggregation loop takes a Delta for which exactly
\* one of the five rules holds, and adds it to the bucket of that rule and to no
\* other bucket.
C3_ClassificationTotalExclusive ==
    [][ (pc = "aggregate" /\ k <= Len(deltas)) =>
          LET d == deltas[k]
          IN  /\ Cardinality({r \in 1..5 : C3_Rule(r, d)}) = 1
              /\ \A r \in 1..5 : C3_Rule(r, d) => C3_AddedOnlyTo(C3_RuleMode(r), d)
      ]_vars

\* C3 witness: the loop has folded a Delta whose import is exactly 0.001 into
\* Charging, one with no flow and charge exactly 0 into Idling, and one with
\* flows below 0.001 and a gain of charge into Charging.
C3_Witness ==
    /\ pc = "aggregate"
    /\ k > Len(deltas)
    /\ \E j \in 1..Len(deltas) :
          deltas[j].imported = Eps /\ FLt(deltas[j].exported, Eps) /\ folded[j] = "charging"
    /\ \E j \in 1..Len(deltas) :
          /\ deltas[j].imported = Zero /\ deltas[j].exported = Zero
          /\ deltas[j].charge = Zero /\ folded[j] = "idling"
    /\ \E j \in 1..Len(deltas) :
          /\ FLt(deltas[j].imported, Eps) /\ FLt(deltas[j].exported, Eps)
          /\ FGt(deltas[j].charge, Zero) /\ folded[j] = "charging"

\* duration_hours of a cumulative total: its ticks, in hours, as a float.
C4_Hours(total) == FDiv(FInt(total.duration), FInt(TicksPerHour))

\* C4: when the parameters are produced, they are the values of the three
\* formulas of the cumulative-ratio strategy on the Idling, Charging and
\* Discharging totals, evaluated in float arithmetic from left to right, and
\* the round-trip value shown is the float product of the two efficiencies.
C4_CumulativeRatioFormulas ==
    pc = "done" =>
        LET p  == result.parasitic_load
            ce == result.charging_efficiency
            de == result.discharging_efficiency
        IN  /\ p = FDiv(FSub(FSub(idling_stats.exported, idling_stats.imported),
                             idling_stats.charge),
                        C4_Hours(idling_stats))
            /\ ce = FDiv(charging_stats.charge,
                         FSub(FSub(charging_stats.imported, charging_stats.exported),
                              FMul(p, C4_Hours(charging_stats))))
            /\ de = FDiv(FSub(discharging_stats.imported, discharging_stats.exported),
                         FSub(discharging_stats.charge,
                              FMul(p, C4_Hours(discharging_stats))))
            /\ result.round_trip_efficiency = FMul(ce, de)

\* C4 witness: parameters were produced from three non-empty totals, with a
\* parasitic load and efficiencies that are not zero, over durations by which
\* the float division rounds (1.5 hours).
C4_Witness ==
    /\ pc = "done"
    /\ ~IsZero(result.parasitic_load)
    /\ ~IsZero(result.charging_efficiency)
    /\ ~IsZero(result.discharging_efficiency)
    /\ idling_stats.duration > 0 /\ charging_stats.duration > 0 /\ discharging_stats.duration > 0
    /\ 3 \in {idling_stats.duration, charging_stats.duration, discharging_stats.duration}

\* Number of Deltas the loop has added to the bucket of mode m.
Contributing(m) == Cardinality({j \in 1..Len(folded) : folded[j] = m})

\* C5: when the run is over, Deltas were aggregated and yet a bucket the
\* estimator needs (Idling, Charging or Discharging) received none, the run has
\* ended in a reported "insufficient data" failure, not in a crash and not in
\* parameters.
C5_EmptyBucketReported ==
    (/\ Terminal
     /\ Len(folded) >= 1
     /\ \E m \in {"idling", "charging", "discharging"} : Contributing(m) = 0)
    => (pc = "done" /\ result.status = "insufficient data")

\* C6: the specification's monotonicity-violation test.  When the table is
\* printed for a list with exactly one pair whose total_import decreases and
\* every other pair valid, the header shows len(states) - 2 Deltas and exposes
\* skipped_pairs = 1, so that Deltas + skipped_pairs = len(states) - 1.
C6_SkippedPairsCounted ==
    (/\ header.printed
     /\ Len(states) >= 2
     /\ Cardinality({j \in 1..NumPairs :
                        FLt(states[j + 1].total_import, states[j].total_import)}) = 1
     /\ Cardinality({j \in 1..NumPairs : ~C1_Admitted(j)}) = 1)
    => /\ header.deltas = Len(states) - 2
       /\ "skipped_pairs" \in DOMAIN header
       /\ header.skipped_pairs = 1
       /\ header.deltas + header.skipped_pairs = header.states - 1

\* |d| < 0.001
C9_NearZero(d) == FLt(FAbs(d), Eps)

\* One of the three divisors of the cumulative-ratio strategy is below 0.001 in
\* magnitude.
C9_SomeDivisorNearZero ==
    \/ C9_NearZero(total_hours(idling_stats))
    \/ /\ ~C9_NearZero(total_hours(idling_stats))
       /\ \/ C9_NearZero(charging_denominator(charging_stats, as_parasitic_load(idling_stats)))
          \/ C9_NearZero(discharging_denominator(discharging_stats, as_parasitic_load(idling_stats)))

\* C9: when the run is over with all three buckets non-empty and one of the
\* divisors below 0.001 in magnitude, the run has ended in a reported estimation
\* failure, not in parameters and not in an unhandled division error.
C9_NearZeroDivisorReported ==
    (/\ Terminal
     /\ \A m \in {"idling", "charging", "discharging"} : Contributing(m) >= 1
     /\ C9_SomeDivisorNearZero)
    => (pc = "done" /\ result.status = "estimation failure")

\* The same with the unhandled division error set aside: parameters are never
\* produced from a divisor below 0.001 in magnitude.
C9_NoParametersFromNearZeroDivisor ==
    (pc = "done" /\ result.status = "ok") => ~C9_SomeDivisorNearZero

\* A Mixed Delta: import and export both at least 0.001.
C7_IsMixed(d) == FGe(d.imported, Eps) /\ FGe(d.exported, Eps)
C7_NotMixed(d) == ~C7_IsMixed(d)

\* The total of the bucket of mode m after the aggregation loop over ds.
RECURSIVE C7_Total(_, _)
C7_Total(m, ds) ==
    IF ds = <<>> THEN Delta0
    ELSE LET before == C7_Total(m, SubSeq(ds, 1, Len(ds) - 1))
             last   == ds[Len(ds)]
         IN  IF branch(last) = m THEN DeltaAdd(before, last) ELSE before

\* The outcome of main() on the Delta list ds.
C7_Outcome(ds) ==
    estimate(C7_Total("charging", ds), C7_Total("discharging", ds), C7_Total("idling", ds))

\* C7: the outcome of a run (the three parameters and the round-trip value, or
\* the error) is the outcome on the Delta list with its Mixed Deltas removed; two
\* lists that differ only in their Mixed Deltas therefore get the same outcome.
C7_MixedExcluded ==
    Terminal => result = C7_Outcome(SelectSeq(deltas, C7_NotMixed))

\* C7 witness: parameters were produced from a list that holds Mixed Deltas
\* beside the Deltas of the three other modes.
C7_Witness ==
    /\ pc = "done"
    /\ result.status = "ok"
    /\ \E j \in 1..Len(deltas) : C7_IsMixed(deltas[j])
    /\ mixed_stats.duration > 0
    /\ Len(SelectSeq(deltas, C7_NotMixed)) >= 3

\* The sum of two floats is exact (the float addition does not round): taking
\* either operand back from the float sum gives the other one.
C8_ExactSum(x, y) ==
    /\ FEq(FSub(FAdd(x, y), x), y)
    /\ FEq(FSub(FAdd(x, y), y), x)

\* No float addition of (a + b) + c or of a + (b + c) rounds.
C8_NoRounding(a, b, c) ==
    \A f \in {"charge", "imported", "exported"} :
        /\ C8_ExactSum(a[f], b[f])
        /\ C8_ExactSum(FAdd(a[f], b[f]), c[f])
        /\ C8_ExactSum(b[f], c[f])
        /\ C8_ExactSum(a[f], FAdd(b[f], c[f]))

\* Every addition returned a new Delta, an object that is none of the operands
\* and none of the Deltas returned before it, and each operand (a, b, c and
\* Delta()) has, after all the calls, the four fields it had before them.
C8_NewDeltaOperandsUnchanged ==
    /\ add_out.operands = <<add_a, add_b, add_c, Delta0>>
    /\ add_out.returned \cap DOMAIN add_out.operands = {}
    /\ Cardinality(add_out.returned) = 7

\* C8, as stated: once the sums are computed, a + b = b + a, (a + b) + c =
\* a + (b + c), and a + Delta() = a = Delta() + a, in all four fields; every
\* addition returned a new Delta and left both operands unchanged.
C8_AdditionMonoid ==
    add_out # <<>> =>
        /\ add_out.ab = add_out.ba
        /\ add_out.ab_c = add_out.a_bc
        /\ add_out.a0 = add_a
        /\ add_out.oa = add_a
        /\ C8_NewDeltaOperandsUnchanged

\* C8, amended: addition is commutative with Delta() as its identity, it is
\* associative on duration, and it is associative on the float fields whenever
\* none of the float additions involved rounds; every addition returns a new
\* Delta and leaves both operands unchanged.
C8_AdditionCommutativeIdentity ==
    add_out # <<>> =>
        /\ add_out.ab = add_out.ba
        /\ add_out.a0 = add_a
        /\ add_out.oa = add_a
        /\ add_out.ab_c.duration = add_out.a_bc.duration
        /\ add_out.ab_c.duration = add_a.duration + add_b.duration + add_c.duration
        /\ C8_NoRounding(add_a, add_b, add_c) => add_out.ab_c = add_out.a_bc
        /\ C8_NewDeltaOperandsUnchanged

\* C8 witness: the sums of three operands, none of them Delta(), were computed
\* without rounding; a + b is a new Delta that differs from a and from b, a +
\* Delta() is a new Delta equal to a, and the operands are what they were.
C8_Witness ==
    /\ add_out # <<>>
    /\ add_a # Delta0 /\ add_b # Delta0 /\ add_c # Delta0
    /\ add_a # add_b /\ add_b # add_c
    /\ C8_NoRounding(add_a, add_b, add_c)
    /\ add_out.ab_c = add_out.a_bc
    /\ add_out.ab # add_a
    /\ add_out.ab # add_b
    /\ add_out.a0 = add_a
    /\ 10 \in add_out.returned
    /\ add_out.operands = <<add_a, add_b, add_c, Delta0>>
    /\ add_out.returned \cap DOMAIN add_out.operands = {}

\* Sum of the first n durations of the Delta list.
RECURSIVE C10_Durations(_)
C10_Durations(n) == IF n = 0 THEN 0 ELSE C10_Durations(n - 1) + deltas[n].duration

\* Left-to-right sum, field by field, of the first n Deltas that went to mode m
\* (of all of them when m is "all").
RECURSIVE C10_Sum(_, _)
C10_Sum(m, n) ==
    IF n = 0 THEN [duration |-> 0, charge |-> Zero, imported |-> Zero, exported |-> Zero]
    ELSE LET before == C10_Sum(m, n - 1)
         IN  IF m = "all" \/ folded[n] = m
             THEN [duration |-> before.duration + deltas[n].duration,
                   charge   |-> FAdd(before.charge, deltas[n].charge),
                   imported |-> FAdd(before.imported, deltas[n].imported),
                   exported |-> FAdd(before.exported, deltas[n].exported)]
             ELSE before

Bucket(m) ==
    CASE m = "charging" -> charging_stats
      [] m = "discharging" -> discharging_stats
      [] m = "idling" -> idling_stats
      [] m = "mixed" -> mixed_stats

Modes == {"charging", "discharging", "idling", "mixed"}

\* charging + discharging + idling + mixed
C10_BucketSum ==
    DeltaAdd(DeltaAdd(DeltaAdd(charging_stats, discharging_stats), idling_stats), mixed_stats)

\* C10, as stated: after any prefix the sum of the four buckets is the sum of
\* the Deltas folded so far, in all four fields, and a bucket's duration is
\* positive exactly when a Delta was folded into it.
C10_AggregationConserves ==
    pc = "aggregate" =>
        /\ C10_BucketSum = C10_Sum("all", Len(folded))
        /\ \A m \in Modes : Bucket(m).duration > 0 <=> Contributing(m) >= 1

\* C10, amended: after any prefix, one Delta was folded per iteration, each
\* bucket is the left-to-right sum of the Deltas that went to it (so a step
\* changes one bucket only), the four durations add up exactly to the durations
\* folded so far, and a bucket's duration is positive exactly when a Delta was
\* folded into it.
C10_AggregationPerBucket ==
    pc = "aggregate" =>
        /\ Len(folded) = k - 1
        /\ \A m \in Modes : Bucket(m) = C10_Sum(m, Len(folded))
        /\ charging_stats.duration + discharging_stats.duration
             + idling_stats.duration + mixed_stats.duration = C10_Durations(Len(folded))
        /\ \A m \in Modes : Bucket(m).duration > 0 <=> Contributing(m) >= 1

\* C10 witness: three Deltas were folded into three different buckets.
C10_Witness ==
    /\ pc = "aggregate"
    /\ Len(folded) = 3
    /\ Cardinality({folded[j] : j \in 1..3}) = 3
    /\ mixed_stats.duration > 0

====
